---------------------------- MODULE Spec2Model ----------------------------
(***************************************************************************)
(* Model of the prediction-comparison pipeline of the diabetes portal:     *)
(* the document store of src/firebase_config.py (local JSON store and      *)
(* REST store with its 2-second read cache) and the handlers of            *)
(* src/flask_app.py that read and write prediction records.                *)
(***************************************************************************)
EXTENDS Integers, Sequences, FiniteSets, TLC

\* ------------------------------------------------------------------ bounds
\* number of prediction ids (1..MaxPreds)
MaxPreds == 4
\* number of analysis ids uuid4() may draw
MaxAnalyses == 2
\* longest past_prediction_ids list a client sends
MaxPastLen == 4
\* number of requests served in one behaviour (SpecLong serves one more)
MaxRequests == 1
\* longest time (seconds) a handler spends rendering charts and calling the LLM
MaxLatency == 2
\* number of analysis requests the server's threads serve at the same time
MaxThreads == 2
\* number of distinct past instants the time fields of a record may denote
MaxInstant == 3
\* largest reading a record holds for a metric (0 is a stored zero reading)
MaxReading == 2
\* run_graph calls served after the initial memory
MaxTurns == 1
\* chatbot and clear requests served after the initial chat histories
MaxChats == 2

\* ------------------------------------------------------- program constants
\* firebase_config.py: _cache_timeout
CacheTimeout == 2
\* flask_app.py: len(past_prediction_ids) < 2 or len(past_prediction_ids) > 3
MinPast == 2
MaxPast == 3
\* memory/store.py: user_mem["history"][-30:]
HistoryLimit == 30
\* flask_app.py: if len(chat_histories[user_id]) > 20
ChatLimit == 20

\* ----------------------------------------------------------------- values
Patients == {"u1", "u2"}
Admins == {"adm"}
Callers == Patients \cup Admins
Anonymous == "anonymous"
\* marks a record that has no user_id key
NoField == "<no user_id>"

\* prediction ids; save_patient_data names a record after its creation instant,
\* so a record's id is also its timestamp
PredIds == 1..MaxPreds
\* a missing or empty current_prediction_id
EmptyId == MaxPreds + 1
AnalysisIds == 1..MaxAnalyses
\* get_ist_now() at resolution time: later than every stored timestamp
NowInstant == MaxPreds + 1

\* worker threads serving requests at the same time
ThreadIds == 1..MaxThreads

VARIABLES
  backend,        \* "local" (LocalDB) or "rest" (FirebaseRestDB): db_ref
  llm_configured, \* get_llm() is not None
  dbP,            \* predictions/{id}: the store's records
  dbU,            \* users/{uid}/predictions/{id}: the per-user mirror
  cacheP,         \* _firebase_cache for the paths predictions/{id}
  cacheU,         \* _firebase_cache for the paths users/{uid}/predictions/{id}
  accounts,       \* users/{uid}: the users that have a profile or statistics node
  cacheAll,       \* _firebase_cache for the path predictions (the whole collection)
  cacheN,         \* _firebase_cache for the paths users/{uid}
  nextAid,        \* the next analysis id uuid4() generates
  nextPred,       \* the next id save_patient_data generates
  budget,         \* number of requests still to be served
  req,            \* the last request and its response
  thread,         \* the requests in flight in the server's worker threads
  arg,            \* the argument of a helper function under study
  ret,            \* what the helper returned for arg
  memory,         \* the memory file: user_id -> profile and history of turns
  chat_histories  \* flask_app.chat_histories: user_id -> list of messages

\* the variables the request handlers above never touch
chat == <<memory, chat_histories>>

aux == <<arg, ret, chat>>

vars == <<backend, llm_configured, dbP, dbU, cacheP, cacheU, accounts, cacheAll, cacheN,
          nextPred, nextAid, budget, req, thread, aux>>

\* ---------------------------------------------------------------- records
\* a path written by PATCH alone (no save_patient_data) holds only the patched keys
BlankRecord ==
  [user_id |-> NoField, timestamp |-> << >>, chart |-> FALSE, report |-> FALSE,
   id |-> FALSE, comparisons |-> << >>]

BlankMirror ==
  [base |-> FALSE, chart |-> FALSE, report |-> FALSE, comparisons |-> << >>]

\* save_patient_data: the record written under predictions/{doc_id}
NewRecord(user_id, doc_id) ==
  [user_id |-> user_id, timestamp |-> <<doc_id>>, chart |-> FALSE, report |-> FALSE,
   id |-> FALSE, comparisons |-> << >>]

\* save_patient_data: the record written under users/{uid}/predictions/{doc_id}
NewMirror ==
  [base |-> TRUE, chart |-> FALSE, report |-> FALSE, comparisons |-> << >>]

Put(f, k, v) == [x \in DOMAIN f \cup {k} |-> IF x = k THEN v ELSE f[x]]

Drop(f, k) == [x \in DOMAIN f \ {k} |-> f[x]]

\* record.get('user_id', 'anonymous')
Owner(record) == IF record.user_id = NoField THEN Anonymous ELSE record.user_id

\* prediction.get('user_id', owner_id) in the loop over comparison_ids
PastOwner(record, owner_id) ==
  IF record.user_id = NoField THEN owner_id ELSE record.user_id

\* the test reduced to "if user_id": 'anonymous' is a non-empty string
AnyUserId(user_id) == user_id # ""

\* if user_id and user_id != 'anonymous'
HasMirror(user_id) == user_id # Anonymous

\* parse_prediction_datetime: the ISO 'timestamp' string when present, else now
\* (records written by this program carry no numeric created_at, and their
\* date/time strings are read only when 'timestamp' does not parse)
parse_prediction_datetime(record) ==
  IF Len(record.timestamp) > 0 THEN record.timestamp[1] ELSE NowInstant

\* ------------------------------------------------------------------ store
\* a world: P, U, A the store's content; CP, CU, CA, CN the read cache (rest backend)
World == [P |-> dbP, U |-> dbU, CP |-> cacheP, CU |-> cacheU,
          A |-> accounts, CA |-> cacheAll, CN |-> cacheN]

IsRest == backend = "rest"

\* _get_cached_data / time passing: entries older than _cache_timeout are misses
AgeOf(c, d) ==
  LET keep == {k \in DOMAIN c : c[k].age + d < CacheTimeout}
  IN [k \in keep |-> [c[k] EXCEPT !.age = c[k].age + d]]

Elapse(w, d) ==
  [w EXCEPT !.CP = AgeOf(w.CP, d), !.CU = AgeOf(w.CU, d),
            !.CA = AgeOf(w.CA, d), !.CN = AgeOf(w.CN, d)]

\* FirebaseRestRef.get on predictions/{p}: a valid cache entry is served as it is,
\* otherwise the store is read and a non-null answer cached
FetchP(w, S) ==
  IF IsRest
    THEN [w EXCEPT !.CP =
           [p \in DOMAIN w.CP \cup (S \cap DOMAIN w.P) |->
              IF p \in DOMAIN w.CP THEN w.CP[p] ELSE [data |-> w.P[p], age |-> 0]]]
    ELSE w

FetchU(w, k) ==
  IF IsRest /\ k \notin DOMAIN w.CU /\ k \in DOMAIN w.U
    THEN [w EXCEPT !.CU = Put(w.CU, k, [data |-> w.U[k], age |-> 0])]
    ELSE w

\* the objects get() hands out: the cached objects (rest) or the live store
\* dictionaries themselves (LocalDBRef.get)
SeenP(w) == IF IsRest THEN [p \in DOMAIN w.CP |-> w.CP[p].data] ELSE w.P

SeenU(w) == IF IsRest THEN [k \in DOMAIN w.CU |-> w.CU[k].data] ELSE w.U

\* an assignment to a key of an object get() handed out
MutP(w, p, fld, v) ==
  IF IsRest THEN [w EXCEPT !.CP[p].data[fld] = v] ELSE [w EXCEPT !.P[p][fld] = v]

MutU(w, k, fld, v) ==
  IF IsRest THEN [w EXCEPT !.CU[k].data[fld] = v] ELSE [w EXCEPT !.U[k][fld] = v]

\* FirebaseRestRef.update / LocalDBRef.update: merge keys, creating the path;
\* the rest cache is left as it is
PatchP(w, p, fld, v) ==
  LET old == IF p \in DOMAIN w.P THEN w.P[p] ELSE BlankRecord
  IN [w EXCEPT !.P = Put(w.P, p, [old EXCEPT ![fld] = v])]

PatchU(w, k, fld, v) ==
  LET old == IF k \in DOMAIN w.U THEN w.U[k] ELSE BlankMirror
  IN [w EXCEPT !.U = Put(w.U, k, [old EXCEPT ![fld] = v])]

\* update_prediction_record(prediction_id, {fld: v}, user_id)
update_prediction_record(w, p, fld, v, user_id) ==
  LET w1 == PatchP(w, p, fld, v)
  IN IF HasMirror(user_id) THEN PatchU(w1, <<user_id, p>>, fld, v) ELSE w1

\* append_prediction_comparison, second half (565-570): the same read, insert
\* and update on users/{user_id}/predictions/{p}
append_user_comparison(w, p, entry, user_id) ==
  LET a == entry.analysis_id
      k == <<user_id, p>>
      w4 == FetchU(w, k)
      seenU == SeenU(w4)
      user_comparisons == IF k \in DOMAIN seenU THEN seenU[k].comparisons ELSE << >>
      addedU == Put(user_comparisons, a, entry)
      w5 == IF k \in DOMAIN seenU /\ DOMAIN user_comparisons # {}
              THEN MutU(w4, k, "comparisons", addedU) ELSE w4
  IN IF HasMirror(user_id) THEN PatchU(w5, k, "comparisons", addedU) ELSE w

\* append_prediction_comparison(prediction_id, comparison_entry, user_id)
append_prediction_comparison(w, p, entry, user_id) ==
  LET a == entry.analysis_id
      w1 == FetchP(w, {p})
      seen == SeenP(w1)
      comparisons == IF p \in DOMAIN seen THEN seen[p].comparisons ELSE << >>
      added == Put(comparisons, a, entry)
      \* comparisons[analysis_id] = ... writes into the fetched object only when
      \* it already had a 'comparisons' key
      w2 == IF p \in DOMAIN seen /\ DOMAIN comparisons # {}
              THEN MutP(w1, p, "comparisons", added) ELSE w1
      w3 == PatchP(w2, p, "comparisons", added)
  IN append_user_comparison(w3, p, entry, user_id)

\* append_prediction_comparison when the store answers the PATCH requests with a
\* status other than 200: FirebaseRestRef.update returns False, which nobody
\* looks at; the reads and the insertions into the fetched objects happen
append_refused(w, p, entry, user_id) ==
  LET a == entry.analysis_id
      w1 == FetchP(w, {p})
      seen == SeenP(w1)
      comparisons == IF p \in DOMAIN seen THEN seen[p].comparisons ELSE << >>
      w2 == IF p \in DOMAIN seen /\ DOMAIN comparisons # {}
              THEN MutP(w1, p, "comparisons", Put(comparisons, a, entry)) ELSE w1
      k == <<user_id, p>>
      w4 == FetchU(w2, k)
      seenU == SeenU(w4)
      user_comparisons == IF k \in DOMAIN seenU THEN seenU[k].comparisons ELSE << >>
      w5 == IF k \in DOMAIN seenU /\ DOMAIN user_comparisons # {}
              THEN MutU(w4, k, "comparisons", Put(user_comparisons, a, entry)) ELSE w4
  IN IF HasMirror(user_id) THEN w5 ELSE w2

\* ---------------------------------------------------------------- sorting
\* sorted(items, key=...): ascending and stable; keys[i] is the key of items[i]
sorted(items, keys) ==
  LET n == Len(items)
      rank == [i \in 1..n |->
                Cardinality({j \in 1..n :
                   \/ keys[j] < keys[i]
                   \/ keys[j] = keys[i] /\ j < i}) + 1]
  IN [r \in 1..n |-> items[CHOOSE i \in 1..n : rank[i] = r]]

\* --------------------------------------------------------------- responses
Response(status, error) ==
  [status |-> status, error |-> error, error_id |-> EmptyId, analysis_id |-> 0,
   explanation |-> "", selected_predictions |-> << >>, events |-> << >>,
   pdf_of |-> ""]

\* ------------------------------------------- POST /prediction/analysis
\* the LLM taken to be there without looking
llm_assumed == TRUE

\* get_llm() returns a client (TRUE) or None (FALSE)
get_llm == llm_configured

\* the arity check with its upper limit forgotten
ArityAtLeast(past) == Len(past) >= MinPast

\* if len(past_ids) < 2 or len(past_ids) > 3: 400
ArityOk(past) == Len(past) >= MinPast /\ Len(past) <= MaxPast

\* the ownership check left out: any logged-in caller passes
MayAccessAnyone(caller, owner_id) == caller \in Callers

\* if not is_admin and owner_id != session.get('user_id'): 403
MayAccess(caller, owner_id) == caller \in Admins \/ owner_id = caller

\* the records left in the order of the request
KeepRequestOrder(resolved_predictions) == resolved_predictions

\* ordered_predictions = sorted(resolved_predictions, key=parse_prediction_datetime)
OrderPredictions(resolved_predictions) ==
  sorted(resolved_predictions,
         [i \in 1..Len(resolved_predictions) |->
            parse_prediction_datetime(resolved_predictions[i].record)])

\* the steps of analyze_prediction_trends up to the ownership checks
\* (flask_app.py 2049-2112); result: the world after the reads, the response of an
\* early return (status 0: none) and the records resolved
ResolveRecords(w, caller, cur, past) ==
  LET is_admin == caller \in Admins
      comparison_ids == past \o <<cur>>
      w1 == FetchP(w, {comparison_ids[i] : i \in 1..Len(comparison_ids)})
      predictions_map == SeenP(w1)
      owner_id == Owner(predictions_map[cur])
      bad == {i \in 1..Len(comparison_ids) :
                \/ comparison_ids[i] \notin DOMAIN predictions_map
                \/ /\ ~is_admin
                   /\ PastOwner(predictions_map[comparison_ids[i]], owner_id) # owner_id}
      first == IF bad = {} THEN Len(comparison_ids) + 1
               ELSE CHOOSE i \in bad : \A j \in bad : i <= j
      \* prediction['id'] = pred_id on every record the loop passed
      touched == {comparison_ids[i] : i \in 1..(first - 1)}
      w2 == [w1 EXCEPT
               !.CP = IF IsRest
                        THEN [p \in DOMAIN w1.CP |->
                               IF p \in touched THEN [w1.CP[p] EXCEPT !.data.id = TRUE]
                               ELSE w1.CP[p]]
                        ELSE w1.CP,
               !.P = IF IsRest THEN w1.P
                     ELSE [p \in DOMAIN w1.P |->
                            IF p \in touched THEN [w1.P[p] EXCEPT !.id = TRUE]
                            ELSE w1.P[p]]]
  IN IF ~get_llm
       THEN [w |-> w, resp |-> Response(503, "llm_unavailable")]
     ELSE IF cur = EmptyId
       THEN [w |-> w, resp |-> Response(400, "current_prediction_id_required")]
     ELSE IF ~ArityOk(past)
       THEN [w |-> w, resp |-> Response(400, "select_2_or_3")]
     ELSE IF cur \notin DOMAIN predictions_map
       THEN [w |-> w1, resp |-> Response(404, "current_not_found")]
     ELSE IF ~MayAccess(caller, owner_id)
       THEN [w |-> w1, resp |-> Response(403, "unauthorized_access")]
     ELSE IF bad # {} /\ comparison_ids[first] \notin DOMAIN predictions_map
       THEN [w |-> w2,
             resp |-> [Response(404, "prediction_not_found")
                         EXCEPT !.error_id = comparison_ids[first]]]
     ELSE IF bad # {}
       THEN [w |-> w2, resp |-> Response(403, "ownership_mismatch")]
     ELSE [w |-> w2, resp |-> Response(0, "")]

\* the chart rendered for every request
AlwaysRender(current_prediction) == TRUE

\* if not current_prediction.get('current_vs_normal_graph_path')
NeedsChart(current_prediction) == ~current_prediction.chart

\* analyze_prediction_trends from the ownership checks to the entry it builds
\* (2114-2188), for a request ResolveRecords let through with world rw: the
\* world after the chart backfill, the work done, and the Comparison Entry
PrepareAnalysis(rw, cur, past, aid) ==
  LET comparison_ids == past \o <<cur>>
      current_prediction == SeenP(rw)[cur]
      owner_id == Owner(current_prediction)
      \* lazy backfill of the current-vs-normal chart (2117-2139)
      backfill == NeedsChart(current_prediction)
      w3 == IF backfill
              THEN update_prediction_record(MutP(rw, cur, "chart", TRUE),
                                            cur, "chart", TRUE, owner_id)
              ELSE rw
      rendered == (IF backfill THEN <<"current_vs_normal_chart", "chart_path_persisted">>
                   ELSE << >>)
                    \o <<"history_chart">>
      resolved_predictions ==
        [i \in 1..Len(comparison_ids) |->
           [id |-> comparison_ids[i], record |-> SeenP(w3)[comparison_ids[i]]]]
      ordered_predictions == OrderPredictions(resolved_predictions)
      summary_rows ==
        [i \in 1..Len(ordered_predictions) |->
           [id |-> ordered_predictions[i].id,
            label |-> parse_prediction_datetime(ordered_predictions[i].record)]]
      comparison_entry ==
        [analysis_id |-> aid,
         current_prediction_id |-> cur,
         graph_relative_path |-> <<owner_id, aid>>,
         groq_explanation |-> "llm_text",
         selected_predictions |-> summary_rows]
  IN [w |-> w3, owner_id |-> owner_id, rendered |-> rendered,
      entry |-> comparison_entry]

\* the answers of the store to the PATCH requests of an append: the REST
\* service may refuse them, the local dictionary takes every update
StoreAnswers == IF IsRest THEN BOOLEAN ELSE {TRUE}

\* the handler with a second invocation after a failed one
FinishWithRetry(prep, cur, aid, llm_raises, d, store_ok) ==
  [w |-> IF llm_raises THEN prep.w
         ELSE append_prediction_comparison(Elapse(prep.w, d), cur, prep.entry, prep.owner_id),
   resp |-> IF llm_raises
              THEN [Response(500, "failed_to_generate")
                      EXCEPT !.events = prep.rendered \o <<"llm_invoke", "llm_invoke">>]
              ELSE [Response(200, "") EXCEPT
                      !.analysis_id = aid,
                      !.explanation = "llm_text",
                      !.selected_predictions = prep.entry.selected_predictions,
                      !.events = prep.rendered \o <<"llm_invoke">>]]

\* analyze_prediction_trends from the LLM call to the response (2141-2215), prep
\* being what PrepareAnalysis built: append_prediction_comparison is called as a
\* statement (2190), whatever the store answers
FinishAnalysis(prep, cur, aid, llm_raises, d, store_ok) ==
  IF llm_raises
    \* except Exception at the endpoint boundary (2210-2215)
    THEN [w |-> prep.w,
          resp |-> [Response(500, "failed_to_generate")
                      EXCEPT !.events = prep.rendered \o <<"llm_invoke">>]]
    ELSE [w |-> IF store_ok
                  THEN append_prediction_comparison(Elapse(prep.w, d), cur, prep.entry,
                                                    prep.owner_id)
                  ELSE append_refused(Elapse(prep.w, d), cur, prep.entry, prep.owner_id),
          resp |-> [Response(200, "") EXCEPT
                      !.analysis_id = aid,
                      !.explanation = "llm_text",
                      !.selected_predictions = prep.entry.selected_predictions,
                      !.events = prep.rendered \o <<"llm_invoke">>]]

\* the handler after ResolveRecords answered r0
AnalyzeFrom(r0, cur, past, aid, llm_raises, d, store_ok) ==
  IF r0.resp.status # 0 THEN r0
  ELSE FinishAnalysis(PrepareAnalysis(r0.w, cur, past, aid), cur, aid, llm_raises, d,
                      store_ok)

\* analyze_prediction_trends, whole handler. aid: the id uuid4() draws;
\* llm_raises: current_llm.invoke raises; d: seconds spent on charts and LLM;
\* store_ok: the store answers the PATCH requests of the append with 200
AnalyzeOutcome(w, caller, cur, past, aid, llm_raises, d, store_ok) ==
  AnalyzeFrom(ResolveRecords(w, caller, cur, past), cur, past, aid, llm_raises, d, store_ok)

\* the handler on a store that takes the writes
AnalyzeResult(w, caller, cur, past, aid, llm_raises, d) ==
  AnalyzeOutcome(w, caller, cur, past, aid, llm_raises, d, TRUE)

\* ------------------------------------------------ generate_comparison_pdf
\* the two chart files a report may embed
ChartFiles == {"current_vs_normal", "comparison"}

\* the existence test left out: every referenced chart is embedded
AssumedOnDisk(relative_path, disk) == TRUE

\* os.path.exists(absolute_path)
ExistsOnDisk(relative_path, disk) == relative_path \in disk

\* generate_comparison_pdf(current_prediction, comparison_entry): the story
\* handed to doc.build, with disk the chart files present under static/
generate_comparison_pdf(current_prediction, comparison_entry, disk) ==
  LET explanation == comparison_entry.groq_explanation
      selected == comparison_entry.selected_predictions
      graph_entries ==
        (IF current_prediction.chart THEN <<"current_vs_normal">> ELSE << >>)
          \o (IF comparison_entry.graph_relative_path # << >>
                THEN <<"comparison">> ELSE << >>)
      shown == {i \in 1..Len(graph_entries) : ExistsOnDisk(graph_entries[i], disk)}
      charts == [i \in 1..Cardinality(shown) |->
                   graph_entries[CHOOSE j \in shown :
                                   Cardinality({k \in shown : k <= j}) = i]]
  IN <<"title", "patient", "latest_assessment", "generated_on", "summary_title">>
       \o (IF explanation # "" THEN <<"paragraph">> ELSE << >>)
       \o (IF Len(selected) > 0 THEN <<"visits_table">> ELSE << >>)
       \o charts

\* ------------------ GET /prediction/comparison/{id}/{analysis_id}/download
DownloadResult(w, caller, p, a) ==
  LET w1 == FetchP(w, {p})
      seen == SeenP(w1)
      prediction == seen[p]
      owner_id == Owner(prediction)
  IN IF p \notin DOMAIN seen
       THEN [w |-> w1, resp |-> Response(404, "prediction_not_found")]
     ELSE IF ~MayAccess(caller, owner_id)
       THEN [w |-> w1, resp |-> Response(403, "unauthorized_request")]
     ELSE IF a \notin DOMAIN prediction.comparisons
       THEN [w |-> w1, resp |-> Response(404, "comparison_not_found")]
     ELSE [w |-> w1,
           resp |-> [Response(200, "") EXCEPT !.analysis_id = a, !.pdf_of = owner_id]]

\* ------------------------------------------------------------ POST /report
\* generate_report: the report is written, then its id and path are stored on
\* the prediction the request names, under the session's user
ReportResult(w, caller, p) ==
  IF ~get_llm
    THEN [w |-> w, resp |-> Response(500, "report_generator_unavailable")]
    ELSE [w |-> update_prediction_record(w, p, "report", TRUE, caller),
          resp |-> Response(200, "")]

\* ------------------------------------------------ reads of whole nodes
\* users/{u} is a node of the store when it has any child
UserNode(w, u) == u \in w.A \/ \E k \in DOMAIN w.U : k[1] = u

\* FirebaseRestRef.get on predictions: the whole collection, cached when not null
FetchAll(w) ==
  IF IsRest /\ "predictions" \notin DOMAIN w.CA /\ DOMAIN w.P # {}
    THEN [w EXCEPT !.CA = Put(w.CA, "predictions", [data |-> w.P, age |-> 0])]
    ELSE w

\* db_ref.child('predictions').get() or {}
SeenAll(w) ==
  IF ~IsRest THEN w.P
  ELSE IF "predictions" \in DOMAIN w.CA THEN w.CA["predictions"].data
  ELSE << >>

\* FirebaseRestRef.get on users/{u}
FetchN(w, u) ==
  IF IsRest /\ u \notin DOMAIN w.CN /\ UserNode(w, u)
    THEN [w EXCEPT !.CN = Put(w.CN, u, [data |-> TRUE, age |-> 0])]
    ELSE w

SeenN(w, u) == IF IsRest THEN u \in DOMAIN w.CN ELSE UserNode(w, u)

\* get_statistics(user_id): reads the collection, then sets users/{u}/statistics;
\* the set invalidates the cache of that path and of its parent users/{u}
get_statistics(w, user_id) ==
  LET w1 == FetchAll(w)
  IN IF HasMirror(user_id)
       THEN [w1 EXCEPT !.A = w1.A \cup {user_id}, !.CN = Drop(w1.CN, user_id)]
       ELSE w1

\* ------------------------------------------- DELETE /delete_report/{id}
\* FirebaseRestRef.delete leaves the cache alone; LocalDBRef has no delete
\* method, so the handler ends in its except branch
DeleteReportResult(w, caller, p) ==
  IF IsRest
    THEN [w |-> get_statistics([w EXCEPT !.P = Drop(w.P, p),
                                         !.U = Drop(w.U, <<caller, p>>)], caller),
          resp |-> Response(200, "")]
    ELSE [w |-> w, resp |-> Response(500, "failed_to_delete")]

\* --------------------------------------- DELETE /api/admin/users/{user_id}
\* the decorator of auth.py: only a session with the admin role passes
admin_required(caller) == caller \in Admins

\* the cascade forgotten: no prediction is selected for deletion
RecordsOfNobody(all_predictions, u) == {}

\* the records of the collection read whose user_id is u
RecordsOf(all_predictions, u) ==
  {p \in DOMAIN all_predictions : all_predictions[p].user_id = u}

\* delete_user: 404 when users/{u} reads as null; every prediction of the
\* collection read with user_id = u is deleted, then users/{u}
DeleteUserResult(w, caller, u) ==
  LET w1 == FetchN(w, u)
      w2 == FetchAll(w1)
      mine == RecordsOf(SeenAll(w2), u)
      w3 == [w2 EXCEPT !.P = [p \in DOMAIN w2.P \ mine |-> w2.P[p]],
                       !.A = w2.A \ {u},
                       !.U = [k \in {k \in DOMAIN w2.U : k[1] # u} |-> w2.U[k]]]
  IN IF ~admin_required(caller)
       THEN [w |-> w, resp |-> Response(403, "admin_required")]
     ELSE IF ~SeenN(w1, u)
       THEN [w |-> w1, resp |-> Response(404, "user_not_found")]
     ELSE IF ~IsRest
       \* .delete() on a LocalDBRef: AttributeError, caught at 1196
       THEN [w |-> w2, resp |-> Response(500, "failed_to_delete")]
     ELSE [w |-> w3, resp |-> Response(200, "")]

\* ------------------------------------- DELETE /admin/patient/{user_id}/delete
\* delete_patient: users/{u} is deleted first, then the predictions of u
DeletePatientResult(w, caller, u) ==
  LET w1 == [w EXCEPT !.A = w.A \ {u},
                      !.U = [k \in {k \in DOMAIN w.U : k[1] # u} |-> w.U[k]]]
      w2 == FetchAll(w1)
      mine == RecordsOf(SeenAll(w2), u)
      w3 == [w2 EXCEPT !.P = [p \in DOMAIN w2.P \ mine |-> w2.P[p]]]
  IN IF ~admin_required(caller)
       THEN [w |-> w, resp |-> Response(403, "admin_required")]
     ELSE IF u = caller
       THEN [w |-> w, resp |-> Response(400, "own_account")]
     ELSE IF ~IsRest
       THEN [w |-> w, resp |-> Response(500, "failed_to_delete")]
     ELSE [w |-> w3, resp |-> Response(200, "")]

\* ----------------------------------------------------------- POST /predict
\* save_patient_data writes the record and its mirror, then the chart is rendered
\* and its path stored; a failed rendering is logged and skipped (2030-2031)
PredictResult(w, caller, doc_id, chart_ok) ==
  \* FirebaseRestRef.set drops the cache entries of its path and of the parent
  LET w0 == [w EXCEPT !.P = Put(w.P, doc_id, NewRecord(caller, doc_id)),
                      !.CP = Drop(w.CP, doc_id),
                      !.CA = Drop(w.CA, "predictions")]
      w1 == IF HasMirror(caller)
              THEN [w0 EXCEPT !.U = Put(w0.U, <<caller, doc_id>>, NewMirror),
                              !.CU = Drop(w0.CU, <<caller, doc_id>>)]
              ELSE w0
  IN [w |-> IF chart_ok THEN update_prediction_record(w1, doc_id, "chart", TRUE, caller)
            ELSE w1,
      resp |-> Response(200, "")]

\* ----------------------------------------------------------------- threads
\* an entry not built yet
BlankEntry ==
  [analysis_id |-> 0, current_prediction_id |-> 0, graph_relative_path |-> <<"", 0>>,
   groq_explanation |-> "", selected_predictions |-> << >>]

\* the dictionary the name `comparisons` of a thread is bound to: "fresh" the {}
\* of existing.get('comparisons', {}); "live" the dictionary inside the local
\* store; "cached" the one inside the cached object; "own" one that neither the
\* store nor the cache holds any more; "with" the "own" dictionary of thread `of`
NoObject == [kind |-> "none", map |-> << >>, of |-> 0]

IdleThread ==
  [pc |-> "idle", cur |-> 0, user_id |-> "", entry |-> BlankEntry,
   held |-> NoObject, status |-> 0]

\* no helper call under study
\* the memory file holds "{}" and chat_histories = {}
ChatIdle == memory = << >> /\ chat_histories = << >>

AuxIdle == arg = << >> /\ ret = << >> /\ ChatIdle

\* ----------------------------------------------------------------- actions
Commit(op, r) ==
  /\ budget > 0
  /\ budget' = budget - 1
  /\ dbP' = r.w.P
  /\ dbU' = r.w.U
  /\ cacheP' = r.w.CP
  /\ cacheU' = r.w.CU
  /\ accounts' = r.w.A
  /\ cacheAll' = r.w.CA
  /\ cacheN' = r.w.CN
  /\ req' = [op |-> op, status |-> r.resp.status, error |-> r.resp.error,
             events |-> r.resp.events]
  /\ UNCHANGED thread

\* past_prediction_ids a client sends with current id cur: every list of two or
\* three distinct other ids, and one list of each length the arity check refuses
PastLists(cur) ==
  {s \in UNION {[1..n -> PredIds \ {cur}] : n \in MinPast..MaxPast} :
     \A i, j \in DOMAIN s : i # j => s[i] # s[j]}
  \cup {[i \in 1..n |-> i] : n \in (0..MaxPastLen) \ (MinPast..MaxPast)}

Latencies == IF IsRest THEN 0..MaxLatency ELSE {0}

\* the request answered, r0 being the answer of ResolveRecords; uuid4() is drawn
\* after the checks
Served(r0, cur, past) ==
  IF r0.resp.status # 0
    THEN /\ Commit("analysis", r0)
         /\ UNCHANGED nextAid
    ELSE \E llm_raises \in BOOLEAN, d \in Latencies, store_ok \in StoreAnswers :
           /\ Commit("analysis",
                     AnalyzeFrom(r0, cur, past, nextAid, llm_raises, d, store_ok))
           /\ nextAid' = nextAid + 1

Analyze(caller, cur, past) ==
  /\ budget > 0
  /\ nextAid <= MaxAnalyses
  /\ Served(ResolveRecords(World, caller, cur, past), cur, past)
  /\ UNCHANGED <<aux, backend, llm_configured, nextPred>>

Predict(caller, chart_ok) ==
  /\ nextPred <= MaxPreds
  /\ Commit("predict", PredictResult(World, caller, nextPred, chart_ok))
  /\ nextPred' = nextPred + 1
  /\ UNCHANGED <<aux, backend, llm_configured, nextAid>>

Download(caller, p, a) ==
  /\ Commit("download", DownloadResult(World, caller, p, a))
  /\ UNCHANGED <<aux, backend, llm_configured, nextPred, nextAid>>

Report(caller, p) ==
  /\ Commit("report", ReportResult(World, caller, p))
  /\ UNCHANGED <<aux, backend, llm_configured, nextPred, nextAid>>

DeleteReport(caller, p) ==
  /\ Commit("delete_report", DeleteReportResult(World, caller, p))
  /\ UNCHANGED <<aux, backend, llm_configured, nextPred, nextAid>>

DeleteUser(caller, u) ==
  /\ Commit("delete_user", DeleteUserResult(World, caller, u))
  /\ UNCHANGED <<aux, backend, llm_configured, nextPred, nextAid>>

DeletePatient(caller, u) ==
  /\ Commit("delete_patient", DeletePatientResult(World, caller, u))
  /\ UNCHANGED <<aux, backend, llm_configured, nextPred, nextAid>>

\* one second passes
Tick ==
  /\ IsRest
  /\ \/ DOMAIN cacheP # {} \/ DOMAIN cacheU # {}
     \/ DOMAIN cacheAll # {} \/ DOMAIN cacheN # {}
  /\ cacheP' = AgeOf(cacheP, 1)
  /\ cacheU' = AgeOf(cacheU, 1)
  /\ cacheAll' = AgeOf(cacheAll, 1)
  /\ cacheN' = AgeOf(cacheN, 1)
  /\ UNCHANGED <<aux, backend, llm_configured, dbP, dbU, accounts,
                 nextPred, nextAid, budget, req, thread>>

\* the store as earlier /predict calls of the patients left it, in a process
\* that has just started (empty cache)
InitStore(sizes) ==
  /\ backend \in {"local", "rest"}
  /\ llm_configured \in BOOLEAN
  /\ \E n \in sizes : \E owners \in [1..n -> Patients] :
       LET w == [P |-> << >>, U |-> << >>, CP |-> << >>, CU |-> << >>,
                 A |-> Callers, CA |-> << >>, CN |-> << >>]
           made[i \in 0..n] ==
             IF i = 0 THEN w ELSE PredictResult(made[i - 1], owners[i], i, TRUE).w
       IN /\ dbP = made[n].P
          /\ dbU = made[n].U
          /\ nextPred = n + 1
  /\ accounts = Callers
  /\ cacheP = << >>
  /\ cacheU = << >>
  /\ cacheAll = << >>
  /\ cacheN = << >>
  /\ nextAid = 1
  /\ req = [op |-> "none", status |-> 0, error |-> "", events |-> << >>]
  /\ thread = [t \in ThreadIds |-> IdleThread]
  /\ AuxIdle

Init == InitStore(0..MaxPreds) /\ budget = MaxRequests

\* one request more, from the stores that leave one id unused
InitLong == InitStore({MaxPreds - 1}) /\ budget = MaxRequests + 1

\* a store holding records from before the chart feature: some have no
\* current_vs_normal_graph_path
InitLegacy ==
  /\ backend \in {"local", "rest"}
  /\ llm_configured = TRUE
  /\ \E owners \in [1..(MaxPreds - 1) -> Patients], charts \in [1..(MaxPreds - 1) -> BOOLEAN] :
       LET w == [P |-> << >>, U |-> << >>, CP |-> << >>, CU |-> << >>,
                 A |-> Callers, CA |-> << >>, CN |-> << >>]
           made[i \in 0..(MaxPreds - 1)] ==
             IF i = 0 THEN w ELSE PredictResult(made[i - 1], owners[i], i, charts[i]).w
       IN /\ dbP = made[MaxPreds - 1].P
          /\ dbU = made[MaxPreds - 1].U
  /\ nextPred = MaxPreds
  /\ accounts = Callers
  /\ cacheP = << >>
  /\ cacheU = << >>
  /\ cacheAll = << >>
  /\ cacheN = << >>
  /\ nextAid = 1
  /\ req = [op |-> "none", status |-> 0, error |-> "", events |-> << >>]
  /\ thread = [t \in ThreadIds |-> IdleThread]
  /\ AuxIdle
  /\ budget = MaxRequests

Next ==
  \/ \E caller \in Callers, chart_ok \in BOOLEAN : Predict(caller, chart_ok)
  \/ \E caller \in Callers, cur \in PredIds \cup {EmptyId} : \E past \in PastLists(cur) :
       Analyze(caller, cur, past)
  \/ \E caller \in Callers, p \in PredIds, a \in AnalysisIds : Download(caller, p, a)
  \/ \E caller \in Callers, p \in PredIds : Report(caller, p)
  \/ \E caller \in Callers, p \in PredIds : DeleteReport(caller, p)
  \/ \E caller \in Callers, u \in Callers : DeleteUser(caller, u)
  \/ \E caller \in Callers, u \in Callers : DeletePatient(caller, u)
  \/ Tick

Spec == Init /\ [][Next]_vars

\* the same program on a store with legacy records
SpecLegacy == InitLegacy /\ [][Next]_vars

\* the same program, one request longer
SpecLong == InitLong /\ [][Next]_vars


\* ------------------------------------------- analysis requests served at once
\* Flask serves every request in a thread of its own; the threads share the
\* store object db_ref and _firebase_cache. A step is one call on the store.

\* the content of the dictionary thread t holds
HeldMap(t) ==
  LET h == thread[t].held
      p == thread[t].cur
  IN CASE h.kind = "live" -> dbP[p].comparisons
       [] h.kind = "cached" -> cacheP[p].data.comparisons
       [] h.kind = "with" -> thread[h.of].held.map
       [] OTHER -> h.map

\* the dictionaries of the records ps leave the store (replaced by an update) or
\* the cache (expired): the threads holding one keep it, and share it
Detach(th, ps, content) ==
  [t \in ThreadIds |->
     LET group == {x \in ThreadIds :
                     th[x].held.kind \in {"live", "cached"} /\ th[x].cur = th[t].cur}
         first == CHOOSE x \in group : \A y \in group : x <= y
     IN IF th[t].held.kind \in {"live", "cached"} /\ th[t].cur \in ps
          THEN IF t = first
                 THEN [th[t] EXCEPT
                         !.held = [kind |-> "own", map |-> content[th[t].cur], of |-> 0]]
                 ELSE [th[t] EXCEPT !.held = [kind |-> "with", map |-> << >>, of |-> first]]
          ELSE th[t]]

\* the update left out
DropComparisons(w, p, comparisons) == w

\* prediction_ref.update({'comparisons': comparisons}) (firebase_config.py 564)
WriteComparisons(w, p, comparisons) == PatchP(w, p, "comparisons", comparisons)

\* a thread that got past the checks: at the LLM failure, or about to append
Started(prep, cur, llm_raises) ==
  [w |-> prep.w,
   th |-> IF llm_raises
            THEN [IdleThread EXCEPT !.pc = "done", !.status = 500]
            ELSE [IdleThread EXCEPT !.pc = "read_p", !.cur = cur,
                                    !.user_id = prep.owner_id, !.entry = prep.entry]]

\* the handler up to the call of append_prediction_comparison (2049-2188)
BeginFrom(r0, cur, past, aid, llm_raises) ==
  IF r0.resp.status # 0
    THEN [w |-> r0.w, th |-> [IdleThread EXCEPT !.pc = "done", !.status = r0.resp.status]]
    ELSE Started(PrepareAnalysis(r0.w, cur, past, aid), cur, llm_raises)

Entered(t, b) ==
  /\ dbP' = b.w.P
  /\ dbU' = b.w.U
  /\ cacheP' = b.w.CP
  /\ cacheU' = b.w.CU
  /\ thread' = [thread EXCEPT ![t] = b.th]
  /\ nextAid' = IF b.th.status \in {0, 500} THEN nextAid + 1 ELSE nextAid

BeginWith(t, r0, cur, past) ==
  IF r0.resp.status # 0
    THEN Entered(t, BeginFrom(r0, cur, past, nextAid, FALSE))
    ELSE \E llm_raises \in BOOLEAN : Entered(t, BeginFrom(r0, cur, past, nextAid, llm_raises))

Begin(t, caller, cur, past) ==
  /\ thread[t].pc = "idle"
  /\ nextAid <= MaxAnalyses
  /\ BeginWith(t, ResolveRecords(World, caller, cur, past), cur, past)
  /\ UNCHANGED <<aux, backend, llm_configured, accounts, cacheAll, cacheN, nextPred, budget, req>>

\* existing = prediction_ref.get() or {}; comparisons = existing.get('comparisons', {})
ReadP(t) ==
  /\ thread[t].pc = "read_p"
  /\ LET p == thread[t].cur
         w1 == FetchP(World, {p})
         seen == SeenP(w1)
         has == p \in DOMAIN seen /\ DOMAIN seen[p].comparisons # {}
     IN /\ cacheP' = w1.CP
        /\ thread' =
             [thread EXCEPT
                ![t].pc = "write_p",
                ![t].held = IF has
                              THEN [NoObject EXCEPT
                                      !.kind = IF IsRest THEN "cached" ELSE "live"]
                              ELSE [NoObject EXCEPT !.kind = "fresh"]]
  /\ UNCHANGED <<aux, backend, llm_configured, dbP, dbU, cacheU, accounts, cacheAll, cacheN,
                 nextPred, nextAid, budget, req>>

\* comparisons[analysis_id] = comparison_entry; prediction_ref.update(...): the
\* insertion is seen by whoever shares the dictionary; on the local store the
\* update puts the thread's dictionary in the place of the record's
WriteP(t) ==
  /\ thread[t].pc = "write_p"
  /\ LET p == thread[t].cur
         h == thread[t].held
         added == Put(HeldMap(t), thread[t].entry.analysis_id, thread[t].entry)
         replaced == ~IsRest /\ h.kind # "live" /\ p \in DOMAIN dbP
         th1 == IF replaced
                  THEN Detach(thread, {p}, [q \in {p} |-> dbP[p].comparisons])
                  ELSE thread
         th2 == IF h.kind = "with" THEN [th1 EXCEPT ![h.of].held.map = added] ELSE th1
     IN /\ dbP' = WriteComparisons(World, p, added).P
        /\ cacheP' = IF h.kind = "cached"
                       THEN [cacheP EXCEPT ![p].data.comparisons = added]
                       ELSE cacheP
        /\ thread' =
             [th2 EXCEPT
                ![t].pc = "mirror",
                ![t].held = IF h.kind = "own" THEN [h EXCEPT !.map = added] ELSE NoObject]
  /\ UNCHANGED <<aux, backend, llm_configured, dbU, cacheU, accounts, cacheAll, cacheN,
                 nextPred, nextAid, budget, req>>

\* the same on users/{uid}/predictions/{p} (565-570), then the 200 response: the
\* value append_prediction_comparison returns is not looked at (flask_app.py 2190)
Mirror(t) ==
  /\ thread[t].pc = "mirror"
  /\ LET w == append_user_comparison(World, thread[t].cur, thread[t].entry,
                                     thread[t].user_id)
     IN /\ dbU' = w.U
        /\ cacheU' = w.CU
  /\ thread' = [thread EXCEPT ![t].pc = "done", ![t].status = 200]
  /\ UNCHANGED <<aux, backend, llm_configured, dbP, cacheP, accounts, cacheAll, cacheN,
                 nextPred, nextAid, budget, req>>

\* a second passes while requests are in flight
Wait ==
  /\ IsRest
  /\ DOMAIN cacheP # {} \/ DOMAIN cacheU # {}
  /\ LET expiring == DOMAIN cacheP \ DOMAIN AgeOf(cacheP, 1)
     IN thread' = Detach(thread, expiring,
                         [p \in expiring |-> cacheP[p].data.comparisons])
  /\ cacheP' = AgeOf(cacheP, 1)
  /\ cacheU' = AgeOf(cacheU, 1)
  /\ UNCHANGED <<aux, backend, llm_configured, dbP, dbU, accounts, cacheAll, cacheN,
                 nextPred, nextAid, budget, req>>

\* a process that serves analysis requests only, MaxThreads at a time
InitRace == InitStore({MaxPreds - 1}) /\ llm_configured /\ budget = 0

NextRace ==
  \/ \E t \in ThreadIds, caller \in Callers, cur \in PredIds :
       \E past \in PastLists(cur) : Begin(t, caller, cur, past)
  \/ \E t \in ThreadIds : ReadP(t)
  \/ \E t \in ThreadIds : WriteP(t)
  \/ \E t \in ThreadIds : Mirror(t)
  \/ Wait

SpecRace == InitRace /\ [][NextRace]_vars


\* ============================================================ helper functions
\* the helpers are studied on their own: the store and the handlers stay idle
RecordsIdle ==
  /\ backend = "local"
  /\ dbP = << >>
  /\ dbU = << >>
  /\ cacheP = << >>
  /\ cacheU = << >>
  /\ accounts = {}
  /\ cacheAll = << >>
  /\ cacheN = << >>
  /\ nextPred = 1
  /\ nextAid = 1
  /\ budget = 0
  /\ req = [op |-> "none", status |-> 0, error |-> "", events |-> << >>]
  /\ thread = [t \in ThreadIds |-> IdleThread]

StoreIdle == RecordsIdle /\ llm_configured = FALSE

\* ------------------------------------------------ parse_prediction_datetime
Instants == 1..MaxInstant

\* record.get('timestamp'): missing, not a string, a string fromisoformat
\* rejects, or an ISO string, with or without a UTC offset
TimestampValues ==
  {[kind |-> k, at |-> 0, aware |-> FALSE] : k \in {"absent", "not_str", "bad"}}
  \cup {[kind |-> "iso", at |-> t, aware |-> a] : t \in Instants, a \in BOOLEAN}

\* record.get('created_at'): missing, a string (save_patient_data writes an ISO
\* string there), a number fromtimestamp rejects with ValueError or OSError, or
\* an epoch number
CreatedAtValues ==
  {[kind |-> k, at |-> 0] : k \in {"absent", "str", "rejected"}}
  \cup {[kind |-> "num", at |-> t] : t \in Instants}

\* record.get('date'): missing or empty, not in '%Y-%m-%d', or a day
DateValues ==
  {[kind |-> k, at |-> 0] : k \in {"absent", "bad"}}
  \cup {[kind |-> "ok", at |-> t] : t \in Instants}

\* record.get('time'): missing or empty, not in '%H:%M:%S', or a time of day
TimeValues == {"absent", "bad", "ok"}

AllTimeFields ==
  [timestamp : TimestampValues, created_at : CreatedAtValues, date : DateValues,
   time : TimeValues]

\* created_at looked at before timestamp
parse_created_at_first(record, now) ==
  IF record.created_at.kind = "num"
    THEN [at |-> record.created_at.at, aware |-> FALSE, src |-> "created_at"]
  ELSE IF record.timestamp.kind = "iso"
    THEN [at |-> record.timestamp.at, aware |-> record.timestamp.aware, src |-> "timestamp"]
  ELSE [at |-> now, aware |-> TRUE, src |-> "now"]

\* parse_prediction_datetime(record), all four sources; now: what get_ist_now()
\* answers at this call. The result: the instant, whether the datetime carries a
\* time zone, and the source it came from
parse_prediction_datetime_fields(record, now) ==
  IF record.timestamp.kind = "iso"
    THEN [at |-> record.timestamp.at, aware |-> record.timestamp.aware, src |-> "timestamp"]
  ELSE IF record.created_at.kind = "num"
    \* datetime.fromtimestamp(created_at): local time, no time zone
    THEN [at |-> record.created_at.at, aware |-> FALSE, src |-> "created_at"]
  ELSE IF record.date.kind = "ok" /\ record.time = "ok"
    THEN [at |-> record.date.at, aware |-> FALSE, src |-> "date_time"]
  ELSE IF record.date.kind = "ok" /\ record.time = "absent"
    THEN [at |-> record.date.at, aware |-> FALSE, src |-> "date"]
  \* get_ist_now(): datetime.now(IST), with time zone
  ELSE [at |-> now, aware |-> TRUE, src |-> "now"]

\* sorted(predictions, key=parse_prediction_datetime): the positions of the list
\* in sorted order; the key of element i is computed at instant base + i.
\* Comparing a datetime with a time zone to one without raises TypeError.
sort_by_datetime(predictions, base) ==
  LET n == Len(predictions)
      keys == [i \in 1..n |-> parse_prediction_datetime_fields(predictions[i], base + i)]
  IN IF \E i, j \in 1..n : keys[i].aware # keys[j].aware
       THEN [raised |-> TRUE, order |-> << >>]
       ELSE [raised |-> FALSE,
             order |-> sorted([i \in 1..n |-> i], [i \in 1..n |-> keys[i].at])]

\* the three places analyze_prediction_trends orders the resolved records:
\* generate_history_comparison_chart (301), build_comparison_prompt (330) and
\* the summary rows (2157); an exception ends the request with 500 (2210-2215)
OrderingsOf(predictions) ==
  LET n == Len(predictions)
      chart == sort_by_datetime(predictions, MaxInstant)
      prompt == sort_by_datetime(predictions, MaxInstant + n)
      rows == sort_by_datetime(predictions, MaxInstant + 2 * n)
  IN IF chart.raised \/ prompt.raised \/ rows.raised
       THEN [status |-> 500, chart |-> << >>, prompt |-> << >>, rows |-> << >>,
             instants |-> << >>]
       ELSE [status |-> 200, chart |-> chart.order, prompt |-> prompt.order,
             rows |-> rows.order,
             instants |-> [i \in 1..n |->
                             parse_prediction_datetime_fields(predictions[i], MaxInstant + i)]]

\* records with one source of time, or none, or all four as save_patient_data
\* writes them
NoTimeFields ==
  [timestamp |-> [kind |-> "absent", at |-> 0, aware |-> FALSE],
   created_at |-> [kind |-> "absent", at |-> 0],
   date |-> [kind |-> "absent", at |-> 0],
   time |-> "absent"]

SortSamples ==
  {NoTimeFields}
  \cup {[NoTimeFields EXCEPT !.timestamp = [kind |-> "iso", at |-> t, aware |-> a]] :
          t \in Instants, a \in BOOLEAN}
  \cup {[NoTimeFields EXCEPT !.created_at = [kind |-> "num", at |-> t]] : t \in Instants}
  \cup {[NoTimeFields EXCEPT !.date = [kind |-> "ok", at |-> t], !.time = "ok"] :
          t \in Instants}
  \cup {[timestamp |-> [kind |-> "iso", at |-> t, aware |-> TRUE],
         created_at |-> [kind |-> "str", at |-> 0],
         date |-> [kind |-> "ok", at |-> t],
         time |-> "ok"] : t \in Instants}

\* one record with any fields, or the records of one analysis (two past records
\* and the current one)
TimeInputs ==
  {<<record>> : record \in AllTimeFields} \cup [1..(MinPast + 1) -> SortSamples]

InitTime ==
  /\ StoreIdle
  /\ arg \in TimeInputs
  /\ ret = << >>
  /\ ChatIdle

\* a single record is resolved at instant MaxInstant + 1; a list is ordered
ResolveTimes ==
  /\ ret = << >>
  /\ ret' = IF Len(arg) = 1
              THEN <<parse_prediction_datetime_fields(arg[1], MaxInstant + 1)>>
              ELSE <<OrderingsOf(arg)>>
  /\ UNCHANGED <<backend, llm_configured, dbP, dbU, cacheP, cacheU, accounts, cacheAll,
                 cacheN, nextPred, nextAid, budget, req, thread, arg, chat>>

NextTime == ResolveTimes

SpecTime == InitTime /\ [][NextTime]_vars


\* ------------------------------------------------- extract_parameter_value
\* COMPARISON_PARAMETERS: the db keys of the four tracked metrics
MetricKeys == {"Glucose", "BloodPressure", "BMI", "Insulin"}

\* FEATURE_INDEX_MAP, as positions of a 1-based sequence
FeatureIndex ==
  [key \in MetricKeys |->
     CASE key = "Glucose" -> 2 [] key = "BloodPressure" -> 3
       [] key = "Insulin" -> 5 [] key = "BMI" -> 6]

\* len(features) of the records of the model
FeatureCount == 8

\* the names a record may hold a metric under
Names == MetricKeys \cup {"Blood Pressure"}

\* a stored value as _safe_float sees it: no such key (or None), a value float()
\* rejects, or a number
Absent == [kind |-> "absent", v |-> 0]
Readings ==
  {Absent, [kind |-> "bad", v |-> 0]} \cup {[kind |-> "num", v |-> n] : n \in 0..MaxReading}

\* candidates = [key, key.replace(' ', ''), key.replace('_', ''),
\*               key.replace('BloodPressure', 'Blood Pressure') ...]
Variants(key) ==
  <<key, key, key, IF key = "BloodPressure" THEN "Blood Pressure" ELSE key>>

NoneValue == [found |-> FALSE, value |-> 0]

\* the loop "for candidate in candidates": the first candidate holding a number
FirstNumeric(holder, candidates) ==
  LET hits == {i \in 1..Len(candidates) : holder[candidates[i]].kind = "num"}
      first == CHOOSE i \in hits : \A j \in hits : i <= j
  IN IF hits = {} THEN NoneValue
     ELSE [found |-> TRUE, value |-> holder[candidates[first]].v]

\* the features list looked at before the keys
extract_features_first(record, key) ==
  IF FeatureIndex[key] <= Len(record.features)
       /\ record.features[FeatureIndex[key]].kind = "num"
    THEN [found |-> TRUE, value |-> record.features[FeatureIndex[key]].v]
    ELSE FirstNumeric(record.top, Variants(key))

\* extract_parameter_value(record, key); record.top the top-level keys,
\* record.medical_data the nested map, record.features the list
extract_parameter_value(record, key) ==
  LET candidates == Variants(key)
      top == FirstNumeric(record.top, candidates)
      nested == FirstNumeric(record.medical_data, candidates)
      idx == FeatureIndex[key]
  IN IF top.found THEN top
     ELSE IF nested.found THEN nested
     ELSE IF idx <= Len(record.features) /\ record.features[idx].kind = "num"
       THEN [found |-> TRUE, value |-> record.features[idx].v]
     ELSE NoneValue

\* a record holding nothing
NoReadings ==
  [top |-> [n \in Names |-> Absent], medical_data |-> [n \in Names |-> Absent],
   features |-> [i \in 1..FeatureCount |-> Absent]]

\* the records that hold readings of one metric only, in any of its places
RecordsFor(key) ==
  LET spellings == {Variants(key)[i] : i \in 1..Len(Variants(key))}
  IN {[top |-> [n \in Names |-> IF n \in spellings THEN t[n] ELSE Absent],
       medical_data |-> [n \in Names |-> IF n \in spellings THEN m[n] ELSE Absent],
       features |-> [i \in 1..FeatureCount |-> IF i = FeatureIndex[key] THEN f ELSE Absent]] :
        t \in [spellings -> Readings], m \in [spellings -> Readings], f \in Readings}

\* ---------------------------------------- generate_history_comparison_chart
\* generate_history_comparison_chart(predictions): the series of the chart, per
\* metric the points in the order of the x axis; raised: sorted() raised
generate_history_comparison_chart(predictions) ==
  LET sorting == sort_by_datetime(predictions, MaxInstant)
      ordered_predictions == [k \in 1..Len(sorting.order) |-> predictions[sorting.order[k]]]
      raw_values(key) ==
        [k \in 1..Len(ordered_predictions) |->
           extract_parameter_value(ordered_predictions[k], key)]
  IN IF sorting.raised THEN [raised |-> TRUE, series |-> << >>]
     ELSE [raised |-> FALSE,
           series |->
             [key \in MetricKeys |->
                IF \A k \in 1..Len(ordered_predictions) : ~raw_values(key)[k].found
                  \* if all(value is None for value in raw_values): continue
                  THEN [plotted |-> FALSE, points |-> << >>]
                  \* value if value is not None else np.nan
                  ELSE [plotted |-> TRUE,
                        points |-> [k \in 1..Len(ordered_predictions) |->
                                      IF raw_values(key)[k].found
                                        THEN [gap |-> FALSE, y |-> raw_values(key)[k].value]
                                        ELSE [gap |-> TRUE, y |-> 0]]]]]

\* readings of the records charted: nothing; every metric under its key; a zero
\* glucose only; blood pressure under 'Blood Pressure' in medical_data only; a
\* BMI that is not a number; insulin in the features list only
ChartReadings ==
  {NoReadings,
   [NoReadings EXCEPT !.top = [n \in Names |-> IF n \in MetricKeys
                                                 THEN [kind |-> "num", v |-> MaxReading]
                                                 ELSE Absent]],
   [NoReadings EXCEPT !.top["Glucose"] = [kind |-> "num", v |-> 0]],
   [NoReadings EXCEPT !.medical_data["Blood Pressure"] = [kind |-> "num", v |-> 1]],
   [NoReadings EXCEPT !.top["BMI"] = [kind |-> "bad", v |-> 0]],
   [NoReadings EXCEPT !.features[FeatureIndex["Insulin"]] = [kind |-> "num", v |-> 0]]}

\* their time fields: none, an ISO timestamp with offset, a numeric created_at
ChartTimes ==
  {NoTimeFields}
  \cup {[NoTimeFields EXCEPT !.timestamp = [kind |-> "iso", at |-> t, aware |-> TRUE]] :
          t \in 1..2}
  \cup {[NoTimeFields EXCEPT !.created_at = [kind |-> "num", at |-> 1]]}

ChartRecords ==
  {[timestamp |-> t.timestamp, created_at |-> t.created_at, date |-> t.date,
    time |-> t.time, top |-> r.top, medical_data |-> r.medical_data,
    features |-> r.features] : t \in ChartTimes, r \in ChartReadings}

MetricInputs ==
  {[fn |-> "extract", key |-> key, records |-> <<record>>] :
     key \in MetricKeys, record \in UNION {RecordsFor(k) : k \in MetricKeys}}
  \cup {[fn |-> "chart", key |-> "", records |-> records] :
          records \in [1..MinPast -> ChartRecords]}

InitMetrics ==
  /\ StoreIdle
  /\ arg \in MetricInputs
  /\ ret = << >>
  /\ ChatIdle

Extract ==
  /\ ret = << >>
  /\ arg.fn = "extract"
  /\ ret' = <<extract_parameter_value(arg.records[1], arg.key)>>
  /\ UNCHANGED <<backend, llm_configured, dbP, dbU, cacheP, cacheU, accounts, cacheAll,
                 cacheN, nextPred, nextAid, budget, req, thread, arg, chat>>

Chart ==
  /\ ret = << >>
  /\ arg.fn = "chart"
  /\ ret' = <<generate_history_comparison_chart(arg.records)>>
  /\ UNCHANGED <<backend, llm_configured, dbP, dbU, cacheP, cacheU, accounts, cacheAll,
                 cacheN, nextPred, nextAid, budget, req, thread, arg, chat>>

NextMetrics == Extract \/ Chart

SpecMetrics == InitMetrics /\ [][NextMetrics]_vars


\* ------------------------------------------ diabetes_agent: memory/store.py
\* items[-n:]
LastN(items, n) ==
  IF Len(items) <= n THEN items ELSE SubSeq(items, Len(items) - n + 1, Len(items))

\* all_mem.get(user_id, {"profile": {}, "history": []})
get_user_memory(mem, user_id) ==
  IF user_id \in DOMAIN mem THEN mem[user_id] ELSE [profile |-> FALSE, history |-> << >>]

\* all_mem[user_id] = user_mem
StoreUser(mem, user_id, user_mem) ==
  [u \in DOMAIN mem \cup {user_id} |-> IF u = user_id THEN user_mem ELSE mem[u]]

\* upsert_user_profile(user_id, profile); profile: a non-empty profile
upsert_user_profile(mem, user_id) ==
  StoreUser(mem, user_id, [get_user_memory(mem, user_id) EXCEPT !.profile = TRUE])

\* append_history(user_id, user_message, bot_answer)
append_history(mem, user_id, user_message, bot_answer) ==
  LET user_mem == get_user_memory(mem, user_id)
      turn == [user |-> user_message, bot |-> bot_answer]
  IN StoreUser(mem, user_id,
               [user_mem EXCEPT !.history = LastN(Append(user_mem.history, turn), HistoryLimit)])

\* ---------------------------------------------- diabetes_agent: rag/safety.py
\* a message, by what the keyword tests see in it: emergency (one of
\* EMERGENCY_KEYWORDS), med_change (one of the patterns of
\* should_block_medication_change), diabetes (a keyword of classify_intent)
Messages == [emergency : BOOLEAN, med_change : BOOLEAN, diabetes : BOOLEAN]

is_emergency_like(message) == message.emergency

should_block_medication_change(message) == message.med_change

\* an answer: its text before the disclaimer, and how often it holds
\* DISCLAIMER_TEXT
emergency_response == [text |-> "emergency", disclaimers |-> 1]

med_change_response == [text |-> "med_change", disclaimers |-> 1]

\* ------------------------------------------------- diabetes_agent: nodes.py
\* what _call_groq does: returns text, text that holds the disclaimer, the
\* empty string, or raises
LlmOutcomes == {"text", "text_with_disclaimer", "empty", "failure"}

\* what handle_image_node returns: no image given, no caption, a caption, a
\* caption with an emergency keyword
Images == {"none", "no_caption", "caption", "emergency_caption"}

\* _call_groq inside try/except; fallback: the node's answer on failure
call_groq(llm, fallback) ==
  CASE llm = "text" -> [text |-> "llm_text", disclaimers |-> 0]
    [] llm = "text_with_disclaimer" -> [text |-> "llm_text", disclaimers |-> 1]
    [] llm = "empty" -> [text |-> "", disclaimers |-> 0]
    [] llm = "failure" -> fallback

\* admin_rag_node(message, ...); docs: similarity_search_admin found documents
admin_rag_node(message, docs, llm) ==
  IF is_emergency_like(message) THEN [answer |-> emergency_response, events |-> << >>]
  ELSE IF should_block_medication_change(message)
    THEN [answer |-> med_change_response, events |-> << >>]
  ELSE IF ~docs
    THEN [answer |-> [text |-> "no_admin_content", disclaimers |-> 1], events |-> <<"rag">>]
  ELSE [answer |-> call_groq(llm, [text |-> "kb_trouble", disclaimers |-> 0]),
        events |-> <<"rag", "llm">>]

\* general_health_node(message, ...)
general_health_node(message, llm) ==
  IF is_emergency_like(message) THEN [answer |-> emergency_response, events |-> << >>]
  ELSE IF should_block_medication_change(message)
    THEN [answer |-> med_change_response, events |-> << >>]
  ELSE [answer |-> call_groq(llm, [text |-> "answer_trouble", disclaimers |-> 1]),
        events |-> <<"llm">>]

\* ------------------------------------------------ diabetes_agent: graphs.py
\* classify_intent(message)
classify_intent(message) == IF message.diabetes THEN "admin_rag" ELSE "general_health"

\* state.message + "[Image description from the user image: {caption}]"
WithCaption(message, image) ==
  IF image = "emergency_caption" THEN [message EXCEPT !.emergency = TRUE] ELSE message

\* if state.answer and DISCLAIMER_TEXT.strip() not in state.answer:
\*     state.answer += DISCLAIMER_TEXT
AttachDisclaimer(answer) ==
  IF (answer.text # "" \/ answer.disclaimers > 0) /\ answer.disclaimers = 0
    THEN [answer EXCEPT !.disclaimers = 1]
    ELSE answer

\* the calls a request may make
GraphCalls ==
  [user_id : Patients, message : Messages, profile : BOOLEAN, image : Images,
   docs : BOOLEAN, llm : LlmOutcomes]

\* the medication test made before the emergency test
run_graph_refusal_first(mem, call) ==
  LET mem1 == IF call.profile THEN upsert_user_profile(mem, call.user_id) ELSE mem
      answer == IF should_block_medication_change(call.message)
                  THEN med_change_response ELSE emergency_response
  IN [memory |-> append_history(mem1, call.user_id, call.message, answer),
      answer |-> answer,
      route_reason |-> IF should_block_medication_change(call.message)
                         THEN "med_change_block" ELSE "emergency",
      intent |-> "", message |-> call.message, events |-> << >>]

\* run_graph(state, nodes_module) on the memory file mem; events: the image,
\* RAG and LLM calls made
run_graph(mem, call) ==
  LET mem1 == IF call.profile THEN upsert_user_profile(mem, call.user_id) ELSE mem
      message == IF call.image = "none" THEN call.message
                 ELSE WithCaption(call.message, call.image)
      seen == IF call.image = "none" THEN << >> ELSE <<"image">>
      intent == classify_intent(message)
      node == IF intent = "admin_rag" THEN admin_rag_node(message, call.docs, call.llm)
              ELSE general_health_node(message, call.llm)
      answer == AttachDisclaimer(node.answer)
  IN IF is_emergency_like(call.message)
       THEN [memory |-> append_history(mem1, call.user_id, call.message, emergency_response),
             answer |-> emergency_response, route_reason |-> "emergency",
             intent |-> "", message |-> call.message, events |-> << >>]
     ELSE IF should_block_medication_change(call.message)
       THEN [memory |-> append_history(mem1, call.user_id, call.message, med_change_response),
             answer |-> med_change_response, route_reason |-> "med_change_block",
             intent |-> "", message |-> call.message, events |-> << >>]
     ELSE [memory |-> append_history(mem1, call.user_id, message, answer),
           answer |-> answer, route_reason |-> intent,
           intent |-> intent, message |-> message, events |-> seen \o node.events]

\* a turn of an earlier conversation
EarlierTurn ==
  [user |-> [emergency |-> FALSE, med_change |-> FALSE, diabetes |-> TRUE],
   bot |-> [text |-> "llm_text", disclaimers |-> 1]]

\* the memory files the calls start from: per user no entry, or a history of
\* 1, 2, HistoryLimit - 1 or HistoryLimit turns
MemoryFiles ==
  LET fills == {1, 2, HistoryLimit - 1, HistoryLimit}
  IN UNION {{[u \in users |->
                [profile |-> FALSE, history |-> [i \in 1..n[u] |-> EarlierTurn]]] :
               n \in [users -> fills]} : users \in SUBSET Patients}

InitGraph ==
  /\ StoreIdle
  /\ arg = << >>
  /\ ret = << >>
  /\ memory \in MemoryFiles
  /\ chat_histories = << >>

RunGraph(call) ==
  /\ Len(ret) < MaxTurns
  /\ arg' = Append(arg, call)
  /\ ret' = Append(ret, [run_graph(memory, call) EXCEPT !.memory = << >>])
  /\ memory' = run_graph(memory, call).memory
  /\ UNCHANGED <<backend, llm_configured, dbP, dbU, cacheP, cacheU, accounts, cacheAll,
                 cacheN, nextPred, nextAid, budget, req, thread, chat_histories>>

NextGraph == \E call \in GraphCalls : RunGraph(call)

SpecGraph == InitGraph /\ [][NextGraph]_vars


\* ------------------------------------------------------- flask_app: chatbot
\* the two messages of exchange n
Exchange(n) == <<[role |-> "user", n |-> n], [role |-> "assistant", n |-> n]>>

\* what the request carries: no JSON body, a message that is empty after
\* strip(), a message
Bodies == {"none", "empty", "text"}

\* what chain.invoke does
ChainOutcomes == {"reply", "error"}

\* if user_id not in chat_histories: chat_histories[user_id] = []
EnsureHistory(histories, user_id) ==
  [u \in DOMAIN histories \cup {user_id} |->
     IF u \in DOMAIN histories THEN histories[u] ELSE << >>]

\* the exchange appended without the cut to the last 20 messages
chatbot_keeps_all(histories, llm_available, user_id, body, outcome, n) ==
  IF ~llm_available THEN [histories |-> histories, status |-> 503]
  ELSE IF body = "none" THEN [histories |-> histories, status |-> 500]
  ELSE IF body = "empty" THEN [histories |-> histories, status |-> 400]
  ELSE IF outcome = "error"
    THEN [histories |-> EnsureHistory(histories, user_id), status |-> 500]
  ELSE [histories |-> [EnsureHistory(histories, user_id) EXCEPT
                         ![user_id] = @ \o Exchange(n)],
        status |-> 200]

\* chatbot() for the session's user_id; n names the exchange
chatbot(histories, llm_available, user_id, body, outcome, n) ==
  LET initialized == EnsureHistory(histories, user_id)
      appended == initialized[user_id] \o Exchange(n)
  IN IF ~llm_available THEN [histories |-> histories, status |-> 503]
     \* request.json is None: data.get raises, except Exception answers 500
     ELSE IF body = "none" THEN [histories |-> histories, status |-> 500]
     ELSE IF body = "empty" THEN [histories |-> histories, status |-> 400]
     \* chain.invoke raises: except Exception answers 500
     ELSE IF outcome = "error" THEN [histories |-> initialized, status |-> 500]
     ELSE [histories |-> [initialized EXCEPT
                            ![user_id] = IF Len(appended) > ChatLimit
                                           THEN LastN(appended, ChatLimit)
                                           ELSE appended],
           status |-> 200]

\* clear_chatbot_history() for the session's user_id
clear_chatbot_history(histories, user_id) ==
  [histories |-> [u \in DOMAIN histories |-> IF u = user_id THEN << >> ELSE histories[u]],
   status |-> 200]

\* the histories the requests start from: per user no entry, or 0, 1,
\* ChatLimit/2 - 1 or ChatLimit/2 exchanges
ChatHistories ==
  LET fills == {0, 1, (ChatLimit \div 2) - 1, ChatLimit \div 2}
      filled(k) == [i \in 1..(2 * k) |-> Exchange((i + 1) \div 2)[2 - (i % 2)]]
  IN UNION {{[u \in users |-> filled(k[u])] : k \in [users -> fills]} :
              users \in SUBSET Patients}

InitChat ==
  /\ RecordsIdle
  /\ llm_configured \in BOOLEAN
  /\ arg = << >>
  /\ ret = << >>
  /\ memory = << >>
  /\ chat_histories \in ChatHistories

ChatServed(op, user_id, r) ==
  /\ Len(ret) < MaxChats
  /\ arg' = Append(arg, [op |-> op, user_id |-> user_id])
  /\ ret' = Append(ret, [op |-> op, status |-> r.status])
  /\ chat_histories' = r.histories
  /\ UNCHANGED <<backend, llm_configured, dbP, dbU, cacheP, cacheU, accounts, cacheAll,
                 cacheN, nextPred, nextAid, budget, req, thread, memory>>

Chatbot(user_id, body, outcome) ==
  ChatServed("chatbot", user_id,
           chatbot(chat_histories, llm_configured, user_id, body, outcome,
                   ChatLimit + Len(ret) + 1))

ClearChatbotHistory(user_id) ==
  ChatServed("clear", user_id, clear_chatbot_history(chat_histories, user_id))

NextChat ==
  \/ \E user_id \in Patients, body \in Bodies, outcome \in ChainOutcomes :
       Chatbot(user_id, body, outcome)
  \/ \E user_id \in Patients : ClearChatbotHistory(user_id)

SpecChat == InitChat /\ [][NextChat]_vars


\* ================================================================== claims
\* vocabulary of the claims
\* the owner of a record as the claims define it: user_id, 'anonymous' when absent
StatedOwner(record) == IF record.user_id = NoField THEN Anonymous ELSE record.user_id

\* the ids a request references
Referenced(cur, past) == {cur} \cup {past[i] : i \in 1..Len(past)}

\* every Comparison Entry of a world, under predictions/ and under users/
EntriesOf(w) ==
  <<[p \in DOMAIN w.P |-> w.P[p].comparisons], [k \in DOMAIN w.U |-> w.U[k].comparisons]>>

\* ---------------------------------------------------------------------- C1
\* C1 (as stated): an analysis request of a non-admin caller, well formed and
\* naming existing records of which at least one belongs to another owner, is
\* answered 403 and adds no Comparison Entry under predictions/ or users/.
C1_ForeignRecordRejected ==
  \A caller \in Callers \ Admins, cur \in PredIds : \A past \in PastLists(cur) :
    ( /\ llm_configured
      /\ Len(past) \in 2..3
      /\ Referenced(cur, past) \subseteq DOMAIN dbP
      /\ \E p \in Referenced(cur, past) : StatedOwner(dbP[p]) # caller )
    => \A llm_raises \in BOOLEAN, d \in Latencies :
         LET r == AnalyzeResult(World, caller, cur, past, nextAid, llm_raises, d)
         IN /\ r.resp.status = 403
            /\ EntriesOf(r.w) = EntriesOf(World)

\* ---------------------------------------------------------------------- C2
\* C2: the download endpoint answers a non-admin caller 200 only for a record
\* whose stated owner is the caller, answers 403 and sends no PDF when the
\* record it read has another owner, and never answers an admin 403.
C2_DownloadOnlyOwnRecords ==
  \A caller \in Callers, p \in PredIds, a \in AnalysisIds :
    LET r == DownloadResult(World, caller, p, a)
        read == SeenP(r.w)
    IN /\ (caller \notin Admins /\ r.resp.status = 200)
            => (p \in DOMAIN read /\ StatedOwner(read[p]) = caller)
       /\ (caller \notin Admins /\ p \in DOMAIN read /\ StatedOwner(read[p]) # caller)
            => (r.resp.status = 403 /\ r.resp.pdf_of = "")
       /\ caller \in Admins => r.resp.status # 403

\* a download has been refused for want of ownership
C2_Witness == req.op = "download" /\ req.status = 403 /\ req.error = "unauthorized_request"

\* ---------------------------------------------------------------------- C3
\* C3: when the referenced records have distinct, resolvable timestamps, the
\* selected_predictions of the entry a successful analysis stores and returns
\* lists exactly the referenced records, oldest first, whatever the order of
\* past_prediction_ids.
C3_SelectedPredictionsOldestFirst ==
  \A caller \in Callers, cur \in PredIds : \A past \in PastLists(cur) :
    LET r0 == ResolveRecords(World, caller, cur, past)
        read == SeenP(r0.w)
        ids == Referenced(cur, past)
    IN r0.resp.status = 0 => \A d \in Latencies :
    LET r == AnalyzeFrom(r0, cur, past, nextAid, FALSE, d, TRUE)
        rows == r.resp.selected_predictions
    IN ( /\ r.resp.status = 200
         /\ \A p \in ids : Len(read[p].timestamp) = 1
         /\ \A p, q \in ids : p # q => read[p].timestamp # read[q].timestamp )
       => /\ Len(rows) = Cardinality(ids)
          /\ {rows[i].id : i \in 1..Len(rows)} = ids
          /\ \A i \in 1..(Len(rows) - 1) :
               read[rows[i].id].timestamp[1] < read[rows[i + 1].id].timestamp[1]
          /\ r.w.P[cur].comparisons[nextAid].selected_predictions = rows

\* an analysis of four records has been stored
C3_Witness ==
  /\ req.op = "analysis" /\ req.status = 200
  /\ \E p \in DOMAIN dbP : \E a \in DOMAIN dbP[p].comparisons :
       /\ Len(dbP[p].comparisons[a].selected_predictions) = 4
       /\ dbP[p].comparisons[a].selected_predictions[4].id # p

\* ---------------------------------------------------------------------- C4
\* C4: with the LLM configured and a current id given, a request with fewer
\* than 2 or more than 3 past ids is answered 400 and touches nothing; one with
\* 2 or 3 past ids passes the arity check and goes on to read the records.
C4_ArityValidation ==
  llm_configured =>
    \A caller \in Callers, cur \in PredIds : \A past \in PastLists(cur) :
      LET r == ResolveRecords(World, caller, cur, past)
      IN IF Len(past) \in {2, 3}
           THEN /\ r.resp.status # 400
                /\ (Referenced(cur, past) \cap DOMAIN dbP) \subseteq DOMAIN SeenP(r.w)
           ELSE /\ r.resp.status = 400
                /\ r.resp.error = "select_2_or_3"
                /\ r.w = World

\* a request has been refused for its number of past ids
C4_Witness == req.op = "analysis" /\ req.status = 400 /\ req.error = "select_2_or_3"

\* ---------------------------------------------------------------------- C5
\* C5 (as stated): when the LLM invocation raises on a valid, authorized
\* request, the request still succeeds with a non-empty narrative and the entry
\* is persisted under the current prediction.
C5_LlmFailureFallsBack ==
  \A caller \in Callers, cur \in PredIds : \A past \in PastLists(cur) :
    ResolveRecords(World, caller, cur, past).resp.status = 0
    => \A d \in Latencies :
         LET r == AnalyzeResult(World, caller, cur, past, nextAid, TRUE, d)
         IN /\ r.resp.status = 200
            /\ r.resp.explanation # ""
            /\ cur \in DOMAIN r.w.P
            /\ nextAid \in DOMAIN r.w.P[cur].comparisons

\* ---------------------------------------------------------------------- C6
\* C6 (as stated): after a successful analysis with analysis id a on current
\* prediction p, the same caller's download of (p, a), with nothing in between
\* but time, is answered 200, on the local store and on the REST store.
C6_DownloadFindsNewEntry ==
  \A caller \in Callers, cur \in PredIds : \A past \in PastLists(cur) :
    ResolveRecords(World, caller, cur, past).resp.status = 0 =>
    \A d \in Latencies, e \in Latencies :
      LET r == AnalyzeResult(World, caller, cur, past, nextAid, FALSE, d)
      IN r.resp.status = 200
         => DownloadResult(Elapse(r.w, e), caller, cur, r.resp.analysis_id).resp.status = 200

\* ---------------------------------------------------------------------- C7
\* C7 (as stated): a Comparison Entry stored under predictions/{p}/comparisons
\* is still there, unchanged, after every step that leaves p in the store.
C7_EntriesAppendOnly ==
  [][\A p \in DOMAIN dbP :
       p \in DOMAIN dbP' =>
         \A a \in DOMAIN dbP[p].comparisons :
           /\ a \in DOMAIN dbP'[p].comparisons
           /\ dbP'[p].comparisons[a] = dbP[p].comparisons[a]]_vars

C9_AbsentIdLeavesNoTrace ==
  llm_configured =>
    \A caller \in Callers, cur \in PredIds : \A past \in PastLists(cur) :
      ( /\ Len(past) \in 2..3
        /\ ~(Referenced(cur, past) \subseteq DOMAIN dbP) )
      => \A llm_raises \in BOOLEAN, d \in Latencies :
           LET r == AnalyzeResult(World, caller, cur, past, nextAid, llm_raises, d)
           IN /\ r.resp.status \in {403, 404}
              /\ (\A p \in Referenced(cur, past) \cap DOMAIN dbP : StatedOwner(dbP[p]) = caller)
                   => r.resp.status = 404
              /\ r.resp.events = << >>
              /\ EntriesOf(r.w) = EntriesOf(World)

\* --------------------------------------------------------------------- C10
\* C10 (as stated): for a non-admin caller, an id naming a record of another
\* owner and an id naming no record draw the same response from the download
\* endpoint and, as current prediction, from the analysis endpoint.
C10_ExistenceNotRevealed ==
  \A caller \in Callers \ Admins, p \in PredIds, q \in PredIds :
    ( /\ p \in DOMAIN dbP
      /\ StatedOwner(dbP[p]) # caller
      /\ q \notin DOMAIN dbP )
    => /\ \A a \in AnalysisIds :
            LET rp == DownloadResult(World, caller, p, a).resp
                rq == DownloadResult(World, caller, q, a).resp
            IN rp.status = rq.status /\ rp.error = rq.error
       /\ \A past \in PastLists(p) \cap PastLists(q) :
            LET rp == ResolveRecords(World, caller, p, past).resp
                rq == ResolveRecords(World, caller, q, past).resp
            IN rp.status = rq.status /\ rp.error = rq.error

\* --------------------------------------------------------------------- C11
\* C11: without a configured LLM every analysis request, whatever its body, is
\* answered 503 with the store and the cache untouched, no chart rendered and
\* no LLM call; a 400, 403 or 404 is answered only when the LLM is configured.
C11_UnavailableLlmComesFirst ==
  ~llm_configured =>
    \A caller \in Callers, cur \in PredIds \cup {EmptyId} : \A past \in PastLists(cur) :
      \A llm_raises \in BOOLEAN, d \in Latencies :
        LET r == AnalyzeResult(World, caller, cur, past, nextAid, llm_raises, d)
        IN /\ r.resp.status = 503
           /\ r.resp.status \notin {400, 403, 404}
           /\ r.w = World
           /\ r.resp.events = << >>

\* an analysis request has been answered 503
C11_Witness == req.op = "analysis" /\ req.status = 503 /\ ~llm_configured

\* --------------------------------------------------------------------- C12
\* C12 (as stated): two successful analyses in a row with the same current and
\* past ids yield entries with different analysis ids and different chart
\* paths, and after the second both are under predictions/{current}/comparisons.
C12_TwoCallsTwoEntries ==
  \A caller \in Callers, cur \in PredIds : \A past \in PastLists(cur) :
    ResolveRecords(World, caller, cur, past).resp.status = 0 =>
    \A d1 \in Latencies, e \in Latencies, d2 \in Latencies :
      LET r1 == AnalyzeResult(World, caller, cur, past, nextAid, FALSE, d1)
          r2 == AnalyzeResult(Elapse(r1.w, e), caller, cur, past, nextAid + 1, FALSE, d2)
          stored == r2.w.P[cur].comparisons
      IN (r1.resp.status = 200 /\ r2.resp.status = 200)
         => /\ r1.resp.analysis_id # r2.resp.analysis_id
            /\ {r1.resp.analysis_id, r2.resp.analysis_id} \subseteq DOMAIN stored
            /\ stored[r1.resp.analysis_id].graph_relative_path
                 # stored[r2.resp.analysis_id].graph_relative_path

C15_OthersRecordsUntouched ==
  \A caller \in Callers \ Admins :
    LET kept(w) ==
          \A q \in DOMAIN dbP :
            dbP[q].user_id \in Callers \ {caller} => (q \in DOMAIN w.P /\ w.P[q] = dbP[q])
    IN /\ \A p \in PredIds : kept(DeleteReportResult(World, caller, p).w)
       /\ \A p \in PredIds : kept(ReportResult(World, caller, p).w)
       /\ \A cur \in PredIds : \A past \in PastLists(cur) :
            \A llm_raises \in BOOLEAN, d \in Latencies :
              kept(AnalyzeResult(World, caller, cur, past, nextAid, llm_raises, d).w)

\* --------------------------------------------------------------------- C16
\* C16 (as stated): whenever an analysis request succeeds, for an admin or a
\* non-admin caller, every past record it references has the same owner as its
\* current record, a record without user_id being owned by 'anonymous'.
C16_EntryOfOneOwner ==
  \A caller \in Callers, cur \in PredIds : \A past \in PastLists(cur) :
    \A llm_raises \in BOOLEAN, d \in Latencies :
      LET r == AnalyzeResult(World, caller, cur, past, nextAid, llm_raises, d)
      IN r.resp.status = 200 =>
           \A i \in 1..Len(past) :
             /\ past[i] \in DOMAIN dbP
             /\ StatedOwner(dbP[past[i]]) = StatedOwner(dbP[cur])

\* --------------------------------------------------------------------- C17
\* C17: the entry of a successful analysis request is under its current
\* prediction's comparisons as long as no other request in flight has the same
\* current prediction; two requests on the same current prediction can both
\* succeed and leave one entry only (C17_Witness).
C17_DistinctPredictionsKeepEntries ==
  \A t \in ThreadIds :
    ( /\ thread[t].pc = "done"
      /\ thread[t].status = 200
      /\ \A u \in ThreadIds \ {t} : thread[u].cur # thread[t].cur )
    => /\ thread[t].cur \in DOMAIN dbP
       /\ thread[t].entry.analysis_id \in DOMAIN dbP[thread[t].cur].comparisons

\* the lost update, on the store without a cache
C17_Witness ==
  /\ backend = "local"
  /\ \E t, u \in ThreadIds :
       /\ t # u
       /\ thread[t].pc = "done" /\ thread[t].status = 200
       /\ thread[u].pc = "done" /\ thread[u].status = 200
       /\ thread[t].cur = thread[u].cur
       /\ thread[t].entry.analysis_id \notin DOMAIN dbP[thread[t].cur].comparisons
       /\ thread[u].entry.analysis_id \in DOMAIN dbP[thread[t].cur].comparisons

\* --------------------------------------------------------------------- C18
\* C18 (as stated): resolving and authorizing the records of an analysis request
\* leaves every stored Prediction Record as it was, on both backends, whether
\* the request passes or is answered 403 or 404.
C18_ResolutionReadsOnly ==
  \A caller \in Callers, cur \in PredIds : \A past \in PastLists(cur) :
    LET r == ResolveRecords(World, caller, cur, past)
    IN r.resp.status \in {0, 403, 404} => r.w.P = dbP

\* --------------------------------------------------------------------- C19
\* C19 (as stated): an analysis request is answered with success only if its
\* Comparison Entry is in the store afterwards, whatever the store answered to
\* the write.
C19_SuccessMeansStored ==
  \A caller \in Callers, cur \in PredIds : \A past \in PastLists(cur) :
    ResolveRecords(World, caller, cur, past).resp.status = 0 =>
      \A d \in Latencies, store_ok \in StoreAnswers :
        LET r == AnalyzeOutcome(World, caller, cur, past, nextAid, FALSE, d, store_ok)
        IN r.resp.status = 200 =>
             /\ cur \in DOMAIN r.w.P
             /\ nextAid \in DOMAIN r.w.P[cur].comparisons

\* --------------------------------------------------------------------- C20
\* what a record holds in the store: its keys apart from 'id', which the
\* analysis handler puts into the objects it fetched
StoredPart(record) == [record EXCEPT !.id = FALSE]

\* C20 (as stated): on the REST store a get never answers with a value cached
\* before a later write to the same path: whatever _firebase_cache holds for
\* predictions/{p} or users/{u}/predictions/{p} is what the store holds there.
C20_ReadYourWrites ==
  IsRest =>
    /\ \A p \in DOMAIN cacheP :
         /\ p \in DOMAIN dbP
         /\ StoredPart(cacheP[p].data) = StoredPart(dbP[p])
    /\ \A k \in DOMAIN cacheU :
         /\ k \in DOMAIN dbU
         /\ cacheU[k].data = dbU[k]

\* --------------------------------------------------------------------- C21
\* C21 (as stated): whatever requests were served, every mirror
\* users/{u}/predictions/{p} has a record predictions/{p} whose user_id is u.
C21_MirrorHasItsRecord ==
  \A k \in DOMAIN dbU :
    /\ k[2] \in DOMAIN dbP
    /\ dbP[k[2]].user_id = k[1]

Unresolvable(record) ==
  /\ record.timestamp.kind # "iso"
  /\ record.created_at.kind # "num"
  /\ ~(record.date.kind = "ok" /\ record.time \in {"ok", "absent"})

\* the place of list element i in an order
PlaceIn(order, i) == CHOOSE k \in 1..Len(order) : order[k] = i

\* C23 (as stated): in an analysis of records of which some resolve to past
\* instants and the others do not resolve, the request is served and every
\* unresolvable record comes after every resolvable one in selected_predictions,
\* in the trend chart and in the prompt.
C23_UnresolvedComesLast ==
  (Len(arg) > 1 /\ ret # << >>) =>
    /\ ret[1].status = 200
    /\ \A i, j \in 1..Len(arg) :
         (Unresolvable(arg[i]) /\ ~Unresolvable(arg[j])) =>
           /\ PlaceIn(ret[1].rows, i) > PlaceIn(ret[1].rows, j)
           /\ PlaceIn(ret[1].chart, i) > PlaceIn(ret[1].chart, j)
           /\ PlaceIn(ret[1].prompt, i) > PlaceIn(ret[1].prompt, j)

C25_ExtractorFallbackOrder ==
  (ret # << >> /\ arg.fn = "extract") =>
    LET record == arg.records[1]
        key == arg.key
        got == ret[1]
        spellings == IF key = "BloodPressure" THEN <<key, "Blood Pressure">> ELSE <<key>>
        numeric(x) == x.kind = "num"
        in_top == {i \in 1..Len(spellings) : numeric(record.top[spellings[i]])}
        in_nested == {i \in 1..Len(spellings) : numeric(record.medical_data[spellings[i]])}
        in_features == numeric(record.features[FeatureIndex[key]])
        least(S) == CHOOSE i \in S : \A j \in S : i <= j
    IN /\ in_top # {} =>
            (got.found /\ got.value = record.top[spellings[least(in_top)]].v)
       /\ (in_top = {} /\ in_nested # {}) =>
            (got.found /\ got.value = record.medical_data[spellings[least(in_nested)]].v)
       /\ (in_top = {} /\ in_nested = {} /\ in_features) =>
            (got.found /\ got.value = record.features[FeatureIndex[key]].v)
       /\ (in_top = {} /\ in_nested = {} /\ ~in_features) => ~got.found

\* the zero reading of the nested map was returned although the features list
\* holds another number
C25_Witness ==
  /\ ret # << >> /\ arg.fn = "extract" /\ arg.key = "BloodPressure"
  /\ arg.records[1].top["BloodPressure"].kind = "bad"
  /\ arg.records[1].top["Blood Pressure"].kind = "absent"
  /\ arg.records[1].medical_data["Blood Pressure"] = [kind |-> "num", v |-> 0]
  /\ arg.records[1].medical_data["BloodPressure"].kind = "absent"
  /\ arg.records[1].features[FeatureIndex["BloodPressure"]] = [kind |-> "num", v |-> 1]
  /\ ret[1] = [found |-> TRUE, value |-> 0]

\* --------------------------------------------------------------------- C26
\* whether a record holds a metric in any of its places
HasMetric(record, key) ==
  \/ \E n \in {key} \cup (IF key = "BloodPressure" THEN {"Blood Pressure"} ELSE {}) :
       record.top[n].kind = "num" \/ record.medical_data[n].kind = "num"
  \/ record.features[FeatureIndex[key]].kind = "num"

\* C26 (as stated): the trend chart of a set of records has a series for a
\* tracked metric exactly when some record of the set holds the metric, and a
\* point of a series is a gap exactly when its record does not hold it.
C26_SeriesWhenSomeRecordHasMetric ==
  (ret # << >> /\ arg.fn = "chart") =>
    /\ ~ret[1].raised
    /\ \A key \in MetricKeys :
         LET series == ret[1].series[key]
         IN /\ series.plotted <=> \E i \in 1..Len(arg.records) : HasMetric(arg.records[i], key)
            /\ series.plotted =>
                 /\ Len(series.points) = Len(arg.records)
                 /\ Cardinality({k \in 1..Len(series.points) : series.points[k].gap})
                      = Cardinality({i \in 1..Len(arg.records) :
                                       ~HasMetric(arg.records[i], key)})

\* --------------------------------------------------------------------- C27
\* the places of an event in the trace of a request
Places(events, e) == {i \in 1..Len(events) : events[i] = e}

\* C27: an analysis request invokes the LLM at most once (a failed invocation
\* is not repeated), a request answered 400, 403, 404 or 503 invokes it not at
\* all, and an invocation comes after the trend chart was rendered.
C27_LlmInvokedAtMostOnce ==
  req.op = "analysis" =>
    /\ Cardinality(Places(req.events, "llm_invoke")) <= 1
    /\ req.status \in {400, 403, 404, 503} => Places(req.events, "llm_invoke") = {}
    /\ \A i \in Places(req.events, "llm_invoke") :
         \E j \in Places(req.events, "history_chart") : j < i

\* an analysis whose one invocation failed
C27_Witness ==
  /\ req.op = "analysis"
  /\ req.status = 500
  /\ Cardinality(Places(req.events, "llm_invoke")) = 1
  /\ Places(req.events, "history_chart") # {}

\* --------------------------------------------------------------------- C28
\* the history a user has in the memory file
HistoryOf(mem, user_id) == IF user_id \in DOMAIN mem THEN mem[user_id].history ELSE << >>

\* the step of the last call: one turn came onto the caller's history (the
\* oldest turn leaving a full history), with the given message and answer
OneTurnAppended(before, after, call, answer) ==
  /\ HistoryOf(after, call.user_id)
       = LastN(Append(HistoryOf(before, call.user_id),
                      [user |-> call.message, bot |-> answer]), HistoryLimit)
  /\ \A u \in Patients \ {call.user_id} : HistoryOf(after, u) = HistoryOf(before, u)

\* C28: run_graph answers an emergency-like message with the fixed emergency
\* response and route_reason 'emergency', also when the message asks for a
\* medication change; it answers a medication-change message that is not
\* emergency-like with the fixed refusal and route_reason 'med_change_block';
\* in both cases it calls neither image, RAG nor LLM node and appends exactly
\* one turn to the history.
C28_SafetyChecksFirst ==
  [][(Len(ret') = Len(ret) + 1) =>
       LET call == arg'[Len(arg')]
           out == ret'[Len(ret')]
       IN /\ is_emergency_like(call.message) =>
               /\ out.answer = emergency_response
               /\ out.route_reason = "emergency"
               /\ out.events = << >>
               /\ OneTurnAppended(memory, memory', call, emergency_response)
          /\ (~is_emergency_like(call.message) /\ should_block_medication_change(call.message)) =>
               /\ out.answer = med_change_response
               /\ out.route_reason = "med_change_block"
               /\ out.events = << >>
               /\ OneTurnAppended(memory, memory', call, med_change_response)]_vars

\* a message that is both, sent with an image by a user whose history is full
C28_Witness ==
  /\ ret # << >>
  /\ arg[Len(arg)].message.emergency /\ arg[Len(arg)].message.med_change
  /\ arg[Len(arg)].image # "none"
  /\ ret[Len(ret)].route_reason = "emergency"
  /\ Len(HistoryOf(memory, arg[Len(arg)].user_id)) = HistoryLimit
  /\ HistoryOf(memory, arg[Len(arg)].user_id)[HistoryLimit].bot = emergency_response
  /\ HistoryOf(memory, arg[Len(arg)].user_id)[HistoryLimit - 1] = EarlierTurn

\* --------------------------------------------------------------------- C29
\* C29 (as stated): every answer run_graph returns holds the disclaimer, on
\* every route and for every LLM outcome, and holds it once.
C29_EveryAnswerHasDisclaimer ==
  \A i \in 1..Len(ret) : ret[i].answer.disclaimers = 1

\* --------------------------------------------------------------------- C30
\* the messages a user has, as /api/chatbot/history shows them
MessagesOf(histories, user_id) ==
  IF user_id \in DOMAIN histories THEN histories[user_id] ELSE << >>

\* at most ChatLimit messages, user and assistant in turn
BoundedAlternating(messages) ==
  /\ Len(messages) <= ChatLimit
  /\ \A i \in 1..Len(messages) :
       messages[i].role = (IF i % 2 = 1 THEN "user" ELSE "assistant")

\* C30: every user's chat history holds at most 20 messages, user and assistant
\* in turn; a successful chatbot request leaves its user the most recent 20 of
\* the old messages followed by the new exchange, a chatbot request answered
\* 400, 503 or 500 leaves the history as it was, a clear request empties it,
\* and no request changes the history of another user.
C30_ChatHistoryBounded ==
  /\ [](\A u \in Patients : BoundedAlternating(MessagesOf(chat_histories, u)))
  /\ [][(Len(ret') = Len(ret) + 1) =>
          LET call == arg'[Len(arg')]
              out == ret'[Len(ret')]
              before == MessagesOf(chat_histories, call.user_id)
              after == MessagesOf(chat_histories', call.user_id)
          IN /\ \A u \in Patients \ {call.user_id} :
                  MessagesOf(chat_histories', u) = MessagesOf(chat_histories, u)
             /\ (call.op = "chatbot" /\ out.status = 200) =>
                  after = LastN(before \o Exchange(ChatLimit + Len(ret')), ChatLimit)
             /\ (call.op = "chatbot" /\ out.status # 200) =>
                  (out.status \in {400, 500, 503} /\ after = before)
             /\ call.op = "clear" => after = << >>]_vars

\* a full history took one more exchange, its oldest exchange left, and a
\* failed request followed
C30_Witness ==
  /\ Len(ret) = 2
  /\ ret[1] = [op |-> "chatbot", status |-> 200]
  /\ ret[2] = [op |-> "chatbot", status |-> 500]
  /\ arg[1].user_id = arg[2].user_id
  /\ Len(MessagesOf(chat_histories, arg[1].user_id)) = ChatLimit
  /\ MessagesOf(chat_histories, arg[1].user_id)[1] = [role |-> "user", n |-> 2]
  /\ MessagesOf(chat_histories, arg[1].user_id)[ChatLimit] = [role |-> "assistant", n |-> ChatLimit + 1]

=============================================================================
